---- MODULE Spec2Model ----
(***************************************************************************)
(* OAE2 STREAM (ericlagergren/stream-rs): the Writer (src/src/writer.rs),  *)
(* the Reader (src/src/reader.rs), the staging buffer (src/src/buf.rs),    *)
(* the io helpers (src/src/io.rs) and the version tag                      *)
(* (src/src/version.rs).                                                   *)
(*                                                                         *)
(* A run of the model is: construct a Writer over an empty sink, call      *)
(* write and flush on it, hand the sink's bytes (possibly modified by an   *)
(* adversary) to a Reader as its source, and call read on the Reader.      *)
(*                                                                         *)
(* The AEAD and HKDF are external primitives.  They are modelled as ideal  *)
(* symbolic functions: a ciphertext byte names the key, nonce, position    *)
(* and plaintext byte it was made from, a tag byte names the key, nonce,   *)
(* associated data and ciphertext it authenticates, and a derived key      *)
(* names its ikm, salt and info.  Verification succeeds exactly when the   *)
(* presented tag is the tag of the presented ciphertext under the          *)
(* Reader's key, nonce and associated data.                                *)
(***************************************************************************)
EXTENDS Integers, Sequences, FiniteSets, TLC

(***************************************************************************)
(* Bounds of the model.                                                    *)
(***************************************************************************)
C == 2             \* chunk size (const generic C of Writer and Reader)
TAG_SIZE == 2      \* A::TagSize of the AEAD
NONCE_SIZE == 6    \* A::NonceSize of the AEAD (must be >= 5)
MaxPlain == 5      \* total plaintext bytes given to one Writer
MaxWrite == 3      \* longest src of one write call
MaxFlush == 2      \* flush calls on one Writer
MaxEncs == 6       \* AEAD encryptions by one Writer
MaxDst == 3        \* longest destination of one read call
MaxVerByte == 3    \* largest byte value in a version field given to the Reader
MaxSinkRoom == 5   \* most bytes a limited sink accepts after the header

(***************************************************************************)
(* Program constants.                                                      *)
(***************************************************************************)
VERSION_SIZE == 4
SALT_SIZE == 32
BYTE_MAX == 255
RADIX == BYTE_MAX + 1           \* number of values of a byte
PREFIX_SIZE == NONCE_SIZE - 5
CTR_IDX == NONCE_SIZE - 5       \* 0-based, as in the source
EOF_IDX == NONCE_SIZE - 1       \* 0-based, as in the source
BUF_SIZE == TAG_SIZE + C
HEADER_SIZE == VERSION_SIZE + SALT_SIZE + PREFIX_SIZE

Min(a, b) == IF a < b THEN a ELSE b

(***************************************************************************)
(* Bytes.  Every byte is a record with a field t.  "raw" bytes carry a     *)
(* number; the other kinds are the symbolic outputs of the AEAD.           *)
(***************************************************************************)
Raw(v) == [t |-> "raw", v |-> v]
Zero == Raw(0)
Junk == [t |-> "junk"]          \* a byte value different from every other

\* a byte value different from b: the next number for a raw byte
Other(b) == IF b.t = "raw" THEN Raw((b.v + 1) % RADIX) ELSE Junk

Slice(s, from, to) == [i \in 1..(to - from) |-> s[from + i]]  \* s[from..to], 0-based

(***************************************************************************)
(* Version (src/src/version.rs).                                           *)
(***************************************************************************)
\* `*self as u32`
VersionAsU32(v) == IF v = "One" THEN 1 ELSE 2

\* u32::to_be_bytes
ToBeBytes(n) ==
    <<Raw(n \div (RADIX * RADIX * RADIX)),
      Raw((n \div (RADIX * RADIX)) % RADIX),
      Raw((n \div RADIX) % RADIX),
      Raw(n % RADIX)>>

\* u32::from_be_bytes
FromBeBytes(b) == ((b[1].v * RADIX + b[2].v) * RADIX + b[3].v) * RADIX + b[4].v

\* Version::to_bytes
VersionToBytes(v) == ToBeBytes(VersionAsU32(v))

\* mutant: every value other than 1 is taken for version Two
VersionTryFromU32Lax(v) ==
    IF v = VersionAsU32("One") THEN [ok |-> TRUE, version |-> "One", val |-> v]
    ELSE [ok |-> TRUE, version |-> "Two", val |-> v]

\* TryFrom<u32> for Version; val is the value carried by InvalidVersion
VersionTryFromU32(v) ==
    IF v = VersionAsU32("One") THEN [ok |-> TRUE, version |-> "One", val |-> v]
    ELSE IF v = VersionAsU32("Two") THEN [ok |-> TRUE, version |-> "Two", val |-> v]
    ELSE [ok |-> FALSE, version |-> "Invalid", val |-> v]

\* TryFrom<[u8; 4]> for Version
VersionTryFrom(b) == VersionTryFromU32(FromBeBytes(b))

(***************************************************************************)
(* HKDF and AEAD (external).                                               *)
(***************************************************************************)
\* the CSPRNG: the k-th byte it hands out is Raw(k)
RngFill(drawn, n) == [i \in 1..n |-> Raw(drawn + i)]

\* mutant: the derived key does not depend on ikm and info
HkdfUnbound(ikm, salt, info) == [ikm |-> 0, salt |-> salt, info |-> 0]

\* The derived key names its inputs.  Every key is embedded in the bytes
\* made with it, so the salt the CSPRNG produced is abbreviated to <<>>;
\* any other salt (always SALT_SIZE > 0 bytes) stands for itself, which
\* keeps the map from salts to keys one-to-one.
Hkdf(ikm, salt, info) ==
    [ikm |-> ikm, salt |-> IF salt = RngFill(0, SALT_SIZE) THEN <<>> ELSE salt,
     info |-> info]

EncByte(key, nonce, i, p) ==
    IF p.t = "dec" /\ p.key = key /\ p.nonce = nonce /\ p.i = i
    THEN p.b
    ELSE [t |-> "ct", key |-> key, nonce |-> nonce, i |-> i, p |-> p]

DecByte(key, nonce, i, b) ==
    IF b.t = "ct" /\ b.key = key /\ b.nonce = nonce /\ b.i = i
    THEN b.p
    ELSE [t |-> "dec", key |-> key, nonce |-> nonce, i |-> i, b |-> b]

EncryptBytes(key, nonce, pt) == [i \in 1..Len(pt) |-> EncByte(key, nonce, i, pt[i])]

DecryptBytes(key, nonce, ct) == [i \in 1..Len(ct) |-> DecByte(key, nonce, i, ct[i])]

TagOf(key, nonce, ad, ct) ==
    [j \in 1..TAG_SIZE |-> [t |-> "tag", key |-> key, nonce |-> nonce,
                            ad |-> ad, ct |-> ct, j |-> j]]

\* mutant: the result of the decryption is ignored
TagVerifiesIgnored(key, nonce, ad, ct, tag) == TRUE

\* decrypt_in_place_detached(..).is_ok()
TagVerifies(key, nonce, ad, ct, tag) == tag = TagOf(key, nonce, ad, ct)

(***************************************************************************)
(* Nonce: prefix || 4-byte big-endian counter || eof byte.                 *)
(***************************************************************************)
NonceDefault == [i \in 1..NONCE_SIZE |-> Zero]

\* mutant: the eof byte is not set
SetEofNoop(nonce) == nonce

SetEof(nonce) == [nonce EXCEPT ![EOF_IDX + 1] = Raw(1)]

CtrOf(nonce) == Slice(nonce, CTR_IDX, EOF_IDX)

RECURSIVE BeInc(_, _)
\* big-endian increment of the byte string c from position i leftwards
BeInc(c, i) ==
    IF i = 0 THEN [ok |-> FALSE, val |-> c]
    ELSE IF c[i].v < BYTE_MAX THEN [ok |-> TRUE, val |-> [c EXCEPT ![i] = Raw(c[i].v + 1)]]
    ELSE BeInc([c EXCEPT ![i] = Raw(0)], i - 1)

\* BigEndian::read_u32(..).checked_add(1)
CheckedAdd1(ctr) ==
    LET r == BeInc(ctr, Len(ctr))
    IN  IF r.ok THEN r ELSE [ok |-> FALSE, val |-> ctr]

\* mutant: the incremented counter is not stored
WriteCtrDropped(nonce, ctr) == nonce

\* BigEndian::write_u32(&mut nonce[CTR_IDX..EOF_IDX], ctr)
WriteCtr(nonce, ctr) ==
    [i \in 1..NONCE_SIZE |->
        IF i > CTR_IDX /\ i <= EOF_IDX THEN ctr[i - CTR_IDX] ELSE nonce[i]]

(***************************************************************************)
(* Buf<N> (src/src/buf.rs).                                                *)
(***************************************************************************)
BufNew(N) == [data |-> [i \in 1..N |-> Zero], read |-> 0, write |-> 0]

BufCap(b) == Len(b.data)

BufLen(b) == b.write - b.read

BufIsEmpty(b) == BufLen(b) = 0

BufIsFull(b) == BufLen(b) = BufCap(b)

BufReset(b) == [b EXCEPT !.read = 0, !.write = 0]

\* mutant: the tag is not dropped
BufTruncateKeepTag(b, n) == b

BufTruncate(b, n) == IF n = 0 THEN BufReset(b) ELSE [b EXCEPT !.write = b.read + n]

RemainingSlice(b) == Slice(b.data, b.read, b.write)

\* overwrite data[at..at+Len(bytes)) (0-based at)
Patch(data, at, bytes) ==
    [i \in 1..Len(data) |->
        IF i > at /\ i <= at + Len(bytes) THEN bytes[i - at] ELSE data[i]]

\* impl Read for Buf: copies min(len, |dst|) bytes out
BufRead(b, dstLen) ==
    LET n == Min(BufLen(b), dstLen)
    IN  [buf |-> [b EXCEPT !.read = b.read + n],
         n |-> n,
         bytes |-> Slice(b.data, b.read, b.read + n)]

\* mutant: the bytes are copied to the start of the buffer
BufWriteRestart(b, src) ==
    LET n == Min(BufCap(b), Len(src))
    IN  [buf |-> [b EXCEPT !.data = Patch(b.data, 0, Slice(src, 0, n)),
                           !.write = b.read + n],
         n |-> n]

\* impl Write for Buf: copies min(N - write, |src|) bytes in
BufWrite(b, src) ==
    LET n == Min(BufCap(b) - b.write, Len(src))
    IN  [buf |-> [b EXCEPT !.data = Patch(b.data, b.write, Slice(src, 0, n)),
                           !.write = b.write + n],
         n |-> n]

(***************************************************************************)
(* Byte sink (trait Write, src/src/io.rs).  per is the most bytes one      *)
(* write call accepts and cap the bytes the sink still accepts; -1 means   *)
(* no limit, which is Vec<u8>.  A sink whose cap is exhausted returns      *)
(* Ok(0) or, when onFull is "err", an error.                               *)
(***************************************************************************)
Unlimited == -1

VecSink == [data |-> <<>>, per |-> Unlimited, cap |-> Unlimited, onFull |-> "zero"]

SinkWrite(s, bytes) ==
    LET a == IF s.per = Unlimited THEN Len(bytes) ELSE Min(s.per, Len(bytes))
        n == IF s.cap = Unlimited THEN a ELSE Min(s.cap, a)
    IN  IF n = 0 /\ Len(bytes) > 0 /\ s.onFull = "err"
        THEN [sink |-> s, n |-> 0, err |-> "Other"]
        ELSE [sink |-> [s EXCEPT !.data = s.data \o Slice(bytes, 0, n),
                                 !.cap = IF s.cap = Unlimited THEN Unlimited ELSE s.cap - n],
              n |-> n, err |-> "none"]

RECURSIVE WriteToLoop(_, _)
\* one iteration of the loop of Buf::write_to, r being the sink's answer
WriteToStep(b, r) ==
    IF r.err # "none" THEN [buf |-> b, stream |-> r.sink, err |-> r.err]
    ELSE IF r.n = 0 THEN [buf |-> b, stream |-> r.sink, err |-> "none"]
    ELSE WriteToLoop([b EXCEPT !.read = b.read + r.n], r.sink)

\* the while loop of Buf::write_to
WriteToLoop(b, stream) ==
    IF BufIsEmpty(b) THEN [buf |-> b, stream |-> stream, err |-> "none"]
    ELSE WriteToStep(b, SinkWrite(stream, RemainingSlice(b)))

\* the end of Buf::write_to: l is the state after the loop
WriteToEnd(start, l) ==
    [buf |-> IF l.err = "none" /\ l.buf.read - start = 0 THEN BufReset(l.buf) ELSE l.buf,
     stream |-> l.stream, n |-> l.buf.read - start, err |-> l.err]

\* Buf::write_to
BufWriteTo(b, stream) == WriteToEnd(b.read, WriteToLoop(b, stream))

(***************************************************************************)
(* Writer (src/src/writer.rs).  A writer operation takes and returns a     *)
(* record x = [wr, encs, res]: wr is the Writer struct (with its sink),    *)
(* encs the history of AEAD encryptions performed, res the call's result.  *)
(* A function of the source is written as a chain of operators, one per    *)
(* step, each passing the values computed so far to the next.              *)
(***************************************************************************)
Ok(n) == [err |-> "none", n |-> n]

Err(e) == [err |-> e, n |-> 0]

\* (n + C - 1) / C, plus one for version Two when n % C == 0
NChunks(n, version) ==
    ((n + C - 1) \div C) + (IF version = "Two" /\ n % C = 0 THEN 1 ELSE 0)

\* Writer::size
WriterSize(n, version) ==
    VERSION_SIZE + SALT_SIZE + PREFIX_SIZE + n + (NChunks(n, version) * TAG_SIZE)

\* flush_internal, the end: the counter is advanced and the buffer reset
FlushCount(x, eof, inc) ==
    IF ~eof /\ ~inc.ok THEN [x EXCEPT !.res = Err("CounterOverflow")]
    ELSE [x EXCEPT !.wr.nonce = IF eof THEN x.wr.nonce ELSE WriteCtr(x.wr.nonce, inc.val),
                   !.wr.buf = BufReset(x.wr.buf)]

\* flush_internal: tw is the sink's answer to the write of the tag
FlushTagWritten(x, eof, n, tw) ==
    IF tw.err # "none" THEN [x EXCEPT !.wr.stream = tw.sink, !.res = Err(tw.err)]
    ELSE FlushCount([x EXCEPT !.wr.stream = tw.sink, !.res = Ok(n + tw.n)],
                    eof, CheckedAdd1(CtrOf(x.wr.nonce)))

\* flush_internal: wt is the result of buf.write_to(stream)
FlushBufWritten(x, eof, tag, wt) ==
    IF wt.err # "none"
    THEN [x EXCEPT !.wr.buf = wt.buf, !.wr.stream = wt.stream, !.res = Err(wt.err)]
    ELSE FlushTagWritten([x EXCEPT !.wr.buf = wt.buf, !.wr.stream = wt.stream],
                         eof, wt.n, SinkWrite(wt.stream, tag))

\* flush_internal: ct is the staging buffer's contents encrypted in place
FlushEncrypted(x, eof, pt, ct) ==
    FlushBufWritten(
        [x EXCEPT !.encs = Append(x.encs, [nonce |-> x.wr.nonce, pt |-> pt, eof |-> eof])],
        eof,
        TagOf(x.wr.key, x.wr.nonce, x.wr.ad, ct),
        BufWriteTo([x.wr.buf EXCEPT !.data = Patch(x.wr.buf.data, x.wr.buf.read, ct)],
                   x.wr.stream))

\* flush_internal: the nonce carries the eof byte
FlushNonceSet(x, eof, pt) == FlushEncrypted(x, eof, pt, EncryptBytes(x.wr.key, x.wr.nonce, pt))

\* Writer::flush_internal
FlushInternal(x, eof) ==
    FlushNonceSet([x EXCEPT !.wr.nonce = IF eof THEN SetEof(x.wr.nonce) ELSE x.wr.nonce],
                  eof, RemainingSlice(x.wr.buf))

\* mutant: version Two takes the version-One arm
FlushBeforeAlways(version) == TRUE

\* mutant: version One takes the version-Two arm
FlushBeforeNever(version) == FALSE

\* the match on self.version in do_write: version One emits a full buffer
\* before staging, version Two after staging
FlushBefore(version) == version = "One"

RECURSIVE DoWriteLoop(_, _, _)
\* do_write, either arm, after its step: progress says whether the
\* iteration staged a byte or emitted a chunk.  An iteration that did
\* neither repeats for ever: that outcome is reported as "Hang".
DoWriteNext(x, src, n, progress) ==
    IF x.res.err # "none" THEN x
    ELSE IF ~progress THEN [x EXCEPT !.res = Err("Hang")]
    ELSE DoWriteLoop(x, src, n)

\* do_write, arm One: bw is the result of buf.write(&buf[n..])
DoWriteOneStaged(x, src, n, flushed, bw) ==
    DoWriteNext([x EXCEPT !.wr.buf = bw.buf], src, n + bw.n, flushed \/ bw.n > 0)

\* do_write, arm One: x is the state after the emission of a full buffer
DoWriteOne(x, src, n, flushed) ==
    IF x.res.err # "none" THEN x
    ELSE DoWriteOneStaged(x, src, n, flushed, BufWrite(x.wr.buf, Slice(src, n, Len(src))))

\* do_write, arm Two: x is the state after buf.write(&buf[n..])
DoWriteTwoStaged(x, src, n, staged) ==
    IF BufIsFull(x.wr.buf)
    THEN DoWriteNext(FlushInternal(x, FALSE), src, n, TRUE)
    ELSE DoWriteNext(x, src, n, staged)

\* do_write, arm Two: bw is the result of buf.write(&buf[n..])
DoWriteTwo(x, src, n, bw) ==
    DoWriteTwoStaged([x EXCEPT !.wr.buf = bw.buf], src, n + bw.n, bw.n > 0)

\* the while loop of Writer::do_write; n bytes of src are staged so far
DoWriteLoop(x, src, n) ==
    IF ~(n < Len(src)) THEN [x EXCEPT !.res = Ok(n)]
    ELSE IF FlushBefore(x.wr.version)
    THEN IF BufIsFull(x.wr.buf)
         THEN DoWriteOne(FlushInternal(x, FALSE), src, n, TRUE)
         ELSE DoWriteOne(x, src, n, FALSE)
    ELSE DoWriteTwo(x, src, n, BufWrite(x.wr.buf, Slice(src, n, Len(src))))

\* Writer::do_write
DoWrite(x, src) == DoWriteLoop([x EXCEPT !.res = Ok(0)], src, 0)

\* Writer::do_flush
DoFlush(x) == FlushInternal([x EXCEPT !.res = Ok(0)], TRUE)

\* new_with: the header is written; w3 is the sink's answer to the prefix
NewWithWritten(w1, w2, w3, key, nonce, version, ad) ==
    IF w1.err # "none" THEN [ok |-> FALSE, err |-> w1.err, stream |-> w1.sink]
    ELSE IF w2.err # "none" THEN [ok |-> FALSE, err |-> w2.err, stream |-> w2.sink]
    ELSE IF w3.err # "none" THEN [ok |-> FALSE, err |-> w3.err, stream |-> w3.sink]
    ELSE [ok |-> TRUE, err |-> "none", stream |-> w3.sink,
          wr |-> [stream |-> w3.sink, key |-> key, nonce |-> nonce,
                  buf |-> BufNew(C), ad |-> ad, version |-> version]]

\* new_with: w2 is the sink's answer to the salt
NewWithSalt(w1, w2, salt, prefix, ikm, version, ad, info) ==
    NewWithWritten(w1, w2, SinkWrite(w2.sink, prefix), Hkdf(ikm, salt, info),
                   Patch(NonceDefault, 0, prefix), version, ad)

\* new_with: w1 is the sink's answer to the version bytes
NewWithVersion(w1, salt, ikm, version, ad, info) ==
    NewWithSalt(w1, SinkWrite(w1.sink, salt), salt, RngFill(SALT_SIZE, PREFIX_SIZE),
                ikm, version, ad, info)

\* Writer::new_with
WriterNewWith(stream, ikm, version, ad, info) ==
    NewWithVersion(SinkWrite(stream, VersionToBytes(version)), RngFill(0, SALT_SIZE),
                   ikm, version, ad, info)

(***************************************************************************)
(* Byte source (trait Read, src/src/io.rs): data[off..] is still unread.   *)
(* One read call hands out at most g bytes (a partial read) and 0 bytes    *)
(* only at the end of the data.                                            *)
(***************************************************************************)
\* the source hands out n bytes
SrcTake(src, n) ==
    [src |-> [src EXCEPT !.off = src.off + n],
     n |-> n,
     bytes |-> Slice(src.data, src.off, src.off + n)]

SrcRead(src, len, g) == SrcTake(src, Min(Min(len, Len(src.data) - src.off), g))

RECURSIVE ReadFull(_, _, _, _)
\* one iteration of the loop of read_full, r being the source's answer
ReadFullStep(src, got, len, g, r) ==
    IF r.n = 0 THEN [src |-> src, bytes |-> got]
    ELSE ReadFull(r.src, got \o r.bytes, len, g)

\* io::read_full: got holds the bytes obtained so far, len the size of buf
ReadFull(src, got, len, g) ==
    IF ~(Len(got) < len) THEN [src |-> src, bytes |-> got]
    ELSE ReadFullStep(src, got, len, g, SrcRead(src, len - Len(got), g))

\* mutant: a short read is not reported
ReadExactUnchecked(r, len) ==
    [src |-> r.src, bytes |-> r.bytes, err |-> "none", n |-> len]

\* the match of Read::read_exact on the result r of read_full
ReadExactMatch(r, len) ==
    IF Len(r.bytes) = len
    THEN [src |-> r.src, bytes |-> r.bytes, err |-> "none", n |-> len]
    ELSE [src |-> r.src, bytes |-> r.bytes, err |-> "UnexpectedEof", n |-> Len(r.bytes)]

\* Read::read_exact
ReadExact(src, len, g) == ReadExactMatch(ReadFull(src, <<>>, len, g), len)

RECURSIVE ReadFromLoop(_, _, _)
\* one iteration of the loop of Buf::read_from, r being the source's answer
ReadFromStep(b, src, g, r) ==
    IF r.n = 0 THEN [buf |-> b, src |-> src]
    ELSE ReadFromLoop([b EXCEPT !.data = Patch(b.data, b.write, r.bytes),
                                !.write = b.write + r.n],
                      r.src, g)

\* the while loop of Buf::read_from
ReadFromLoop(b, src, g) ==
    IF BufIsFull(b) THEN [buf |-> b, src |-> src]
    ELSE ReadFromStep(b, src, g, SrcRead(src, BufCap(b) - b.write, g))

\* the end of Buf::read_from: l is the state after the loop
ReadFromEnd(start, l) == [buf |-> l.buf, src |-> l.src, n |-> l.buf.write - start]

\* Buf::read_from
BufReadFrom(b, src, g) == ReadFromEnd(b.write, ReadFromLoop(b, src, g))

(***************************************************************************)
(* Reader (src/src/reader.rs).                                             *)
(***************************************************************************)
\* a zeroed array of n bytes ([0u8; n]) after the bytes read were stored in it
Filled(n, bytes) == Patch([i \in 1..n |-> Zero], 0, bytes)

NewFailed(err, r) == [ok |-> FALSE, err |-> err, n |-> r.n, stream |-> r.src]

\* new_with: rp is the result of reading the prefix
ReaderNewPrefix(rp, version, salt, ikm, ad, info) ==
    IF rp.err # "none" THEN NewFailed(rp.err, rp)
    ELSE [ok |-> TRUE, err |-> "none", n |-> 0, stream |-> rp.src,
          rd |-> [stream |-> rp.src, key |-> Hkdf(ikm, salt, info),
                  nonce |-> Patch(NonceDefault, 0, rp.bytes),
                  buf |-> BufNew(BUF_SIZE), eof |-> FALSE, ad |-> ad,
                  version |-> version]]

\* new_with: rs is the result of reading the salt
ReaderNewSalt(rs, version, ikm, ad, info, g) ==
    IF rs.err # "none" THEN NewFailed(rs.err, rs)
    ELSE ReaderNewPrefix(ReadExact(rs.src, PREFIX_SIZE, g), version,
                         Filled(SALT_SIZE, rs.bytes), ikm, ad, info)

\* mutant: the version is looked at only after the salt was read
ReaderNewDecodedLate(rv, v, ikm, ad, info, g) ==
    IF ReadExact(rv.src, SALT_SIZE, g).err # "none"
    THEN NewFailed(ReadExact(rv.src, SALT_SIZE, g).err, ReadExact(rv.src, SALT_SIZE, g))
    ELSE IF ~v.ok
    THEN [ok |-> FALSE, err |-> "InvalidVersion", n |-> v.val, stream |-> rv.src]
    ELSE ReaderNewSalt(ReadExact(rv.src, SALT_SIZE, g), v.version, ikm, ad, info, g)

\* new_with: v is the decoded version
ReaderNewDecoded(rv, v, ikm, ad, info, g) ==
    IF ~v.ok THEN [ok |-> FALSE, err |-> "InvalidVersion", n |-> v.val, stream |-> rv.src]
    ELSE ReaderNewSalt(ReadExact(rv.src, SALT_SIZE, g), v.version, ikm, ad, info, g)

\* new_with: rv is the result of reading the version bytes
ReaderNewVersion(rv, ikm, ad, info, g) ==
    IF rv.err # "none" THEN NewFailed(rv.err, rv)
    ELSE ReaderNewDecoded(rv, VersionTryFrom(Filled(VERSION_SIZE, rv.bytes)), ikm, ad, info, g)

\* Reader::new_with
ReaderNewWith(stream, ikm, ad, info, g) ==
    ReaderNewVersion(ReadExact(stream, VERSION_SIZE, g), ikm, ad, info, g)

\* the result of a do_read call: the Reader, the result, the bytes copied
\* to the caller, whether the staging buffer was refilled, the number of
\* AEAD decryptions attempted, and whether the staging buffer now holds
\* the plaintext of a chunk whose tag verified
ReadResult(rd, res, bytes, refill, tries, verified) ==
    [rd |-> rd, res |-> res, bytes |-> bytes, refill |-> refill, tries |-> tries,
     verified |-> verified]

\* do_read, the end: out is the result of the final self.buf.read(buf)
RefillCopied(rd, tries, out) ==
    ReadResult([rd EXCEPT !.buf = out.buf], Ok(out.n), out.bytes, TRUE, tries, TRUE)

\* do_read: the chunk verified; inc is the incremented counter
RefillCount(rd, dstLen, n, tries, inc) ==
    IF ~rd.eof /\ ~inc.ok
    THEN ReadResult(rd, Err("CounterOverflow"), <<>>, TRUE, tries, FALSE)
    ELSE RefillCopied(
             [rd EXCEPT !.nonce = IF rd.eof THEN rd.nonce ELSE WriteCtr(rd.nonce, inc.val),
                        !.buf = BufTruncate(rd.buf, n - TAG_SIZE)],
             tries,
             BufRead(BufTruncate(rd.buf, n - TAG_SIZE), dstLen))

\* mutant: the counter is advanced before the outcome of the decryption is
\* looked at
RefillCheckedCountFirst(rd, dstLen, n, ct, tries, ok) ==
    IF ~ok
    THEN ReadResult([rd EXCEPT !.nonce = WriteCtr(rd.nonce, CheckedAdd1(CtrOf(rd.nonce)).val)],
                    Err("Authentication"), <<>>, TRUE, tries, FALSE)
    ELSE RefillCount(
             [rd EXCEPT !.buf.data = Patch(rd.buf.data, 0, DecryptBytes(rd.key, rd.nonce, ct))],
             dstLen, n, tries, CheckedAdd1(CtrOf(rd.nonce)))

\* do_read: ok is the outcome of the last decryption; a successful
\* decryption has replaced the ciphertext by the plaintext
RefillChecked(rd, dstLen, n, ct, tries, ok) ==
    IF ~ok THEN ReadResult(rd, Err("Authentication"), <<>>, TRUE, tries, FALSE)
    ELSE RefillCount(
             [rd EXCEPT !.buf.data = Patch(rd.buf.data, 0, DecryptBytes(rd.key, rd.nonce, ct))],
             dstLen, n, tries, CheckedAdd1(CtrOf(rd.nonce)))

\* mutant: under version One the retry is made whatever the first
\* decryption gave
NeedRetryUnchecked(version, ok, eof) == version = "One" /\ ~eof

\* mutant: the retry is never made
NeedRetryNever(version, ok, eof) == FALSE

\* mutant: the retry is made under every version
NeedRetryAnyVersion(version, ok, eof) == ~ok /\ ~eof

\* the condition of the version-1 retry
NeedRetry(version, ok, eof) == version = "One" /\ ~ok /\ ~eof

\* do_read: the retry with the eof nonce
RefillRetry(rd, dstLen, n, ct, tag) ==
    RefillChecked(rd, dstLen, n, ct, 2, TagVerifies(rd.key, rd.nonce, rd.ad, ct, tag))

\* do_read: ok1 is the outcome of the first decryption
RefillTried(rd, dstLen, n, ct, tag, ok1) ==
    IF NeedRetry(rd.version, ok1, rd.eof)
    THEN RefillRetry([rd EXCEPT !.nonce = SetEof(rd.nonce), !.eof = TRUE], dstLen, n, ct, tag)
    ELSE RefillChecked(rd, dstLen, n, ct, 1, ok1)

\* do_read: the staging buffer is split into ciphertext and tag
RefillSplit(rd, dstLen, n, ct, tag) ==
    RefillTried(rd, dstLen, n, ct, tag, TagVerifies(rd.key, rd.nonce, rd.ad, ct, tag))

\* do_read: a chunk of n >= TAG_SIZE bytes was read; eof says whether it
\* is a partial chunk
RefillChunk(rd, dstLen, n, eof) ==
    RefillSplit([rd EXCEPT !.eof = eof, !.nonce = IF eof THEN SetEof(rd.nonce) ELSE rd.nonce],
                dstLen, n,
                Slice(rd.buf.data, 0, n - TAG_SIZE),
                Slice(rd.buf.data, n - TAG_SIZE, n))

\* do_read: rf is the result of self.buf.read_from(self.stream)
RefillRead(rd, dstLen, rf) ==
    IF rf.n < TAG_SIZE
    THEN ReadResult([rd EXCEPT !.stream = rf.src, !.buf = rf.buf],
                    Err("Authentication"), <<>>, TRUE, 0, FALSE)
    ELSE RefillChunk([rd EXCEPT !.stream = rf.src, !.buf = rf.buf],
                     dstLen, rf.n, rf.n < BUF_SIZE)

\* the part of Reader::do_read after the staging buffer was found empty
Refill(rd, dstLen, g) == RefillRead(rd, dstLen, BufReadFrom(BufReset(rd.buf), rd.stream, g))

\* mutant: an empty staging buffer always means end of stream
AtEndWhenEmpty(n, dstLen, eof) == n = 0

\* mutant: an empty destination is not looked at
AtEndOnlyEof(n, dstLen, eof) == n = 0 /\ eof

\* mutant: the eof flag is not looked at
AtEndIgnoresEof(n, dstLen, eof) == n = 0 /\ dstLen = 0

\* the first match arm of do_read: n bytes were copied from the staging buffer
AtEnd(n, dstLen, eof) == n = 0 /\ (dstLen = 0 \/ eof)

\* the match of do_read on first, the result of self.buf.read(buf)
DoReadMatch(rd, verified, dstLen, g, first) ==
    IF AtEnd(first.n, dstLen, rd.eof)
    THEN ReadResult([rd EXCEPT !.buf = first.buf], Ok(0), <<>>, FALSE, 0, verified)
    ELSE IF first.n > 0
    THEN ReadResult([rd EXCEPT !.buf = first.buf], Ok(first.n), first.bytes, FALSE, 0, verified)
    ELSE Refill([rd EXCEPT !.buf = first.buf], dstLen, g)

\* Reader::do_read.  verified says whether the staging buffer holds the
\* plaintext of a chunk whose tag verified.
DoRead(rd, verified, dstLen, g) ==
    DoReadMatch(rd, verified, dstLen, g, BufRead(rd.buf, dstLen))

(***************************************************************************)
(* The adversary between sink and source.                                  *)
(***************************************************************************)
\* offset in the sink of the k-th emitted chunk (k from 1), given the
\* history of encryptions; chunk k is Len(encs[k].pt) + TAG_SIZE bytes
RECURSIVE ChunkStart(_, _)
ChunkStart(es, k) ==
    IF k = 1 THEN HEADER_SIZE
    ELSE ChunkStart(es, k - 1) + Len(es[k - 1].pt) + TAG_SIZE

ChunkLen(es, k) == Len(es[k].pt) + TAG_SIZE

ChunkBytes(data, es, k) ==
    Slice(data, ChunkStart(es, k), ChunkStart(es, k) + ChunkLen(es, k))

\* length of the longest common prefix of two byte strings
CommonPrefix(s, t) ==
    CHOOSE k \in 0..Min(Len(s), Len(t)) :
        /\ \A i \in 1..k : s[i] = t[i]
        /\ (k = Min(Len(s), Len(t)) \/ s[k + 1] # t[k + 1])

NoAttack == [kind |-> "none", a |-> 0, b |-> 0]

\* the attacks on a valid ciphertext of N chunks
Attacks(data, es) ==
    LET N == Len(es)
    IN  [kind : {"trunc"}, a : 0..(Len(data) - 1), b : {0}]
        \cup [kind : {"flip"}, a : 0..(Len(data) - 1), b : {0}]
        \cup {x \in [kind : {"swap"}, a : 1..N, b : 1..N] :
                   x.a < x.b /\ ChunkLen(es, x.a) = ChunkLen(es, x.b)}
        \cup {x \in [kind : {"dup"}, a : 1..N, b : 1..(N + 1)] : N >= 2}

\* the bytes the Reader is given
Tampered(data, es, x) ==
    IF x.kind = "trunc" THEN Slice(data, 0, x.a)
    ELSE IF x.kind = "flip" THEN Patch(data, x.a, <<Other(data[x.a + 1])>>)
    ELSE IF x.kind = "swap"
    THEN Slice(data, 0, ChunkStart(es, x.a))
         \o ChunkBytes(data, es, x.b)
         \o Slice(data, ChunkStart(es, x.a) + ChunkLen(es, x.a), ChunkStart(es, x.b))
         \o ChunkBytes(data, es, x.a)
         \o Slice(data, ChunkStart(es, x.b) + ChunkLen(es, x.b), Len(data))
    ELSE IF x.kind = "dup"
    THEN LET at == IF x.b = Len(es) + 1 THEN Len(data) ELSE ChunkStart(es, x.b)
         IN  Slice(data, 0, at) \o ChunkBytes(data, es, x.a) \o Slice(data, at, Len(data))
    ELSE data

(***************************************************************************)
(* State.                                                                  *)
(***************************************************************************)
VARIABLES
    pc,       \* "start", "writing", "wfailed", "reading", "rfailed"
    writer,   \* the Writer struct (with its sink in .stream)
    encs,     \* history: the AEAD encryptions of the Writer, in order
    ptext,    \* history: all bytes passed to successful write calls
    wlast,    \* history: the last Writer call and its result
    nflush,   \* history: number of flush calls
    attack,   \* what the adversary did to the sink's bytes
    reader,   \* the Reader struct (with its source in .stream)
    verified, \* history: the staging buffer holds verified plaintext
    rh        \* history of the read calls

vars == <<pc, writer, encs, ptext, wlast, nflush, attack, reader, verified, rh>>

wvars == <<writer, encs, ptext, wlast, nflush>>

rvars == <<attack, reader, verified, rh>>

\* the key material and options of the Writer; the Reader may be given others
WIkm == 1
WAd == 1
WInfo == 1
Ikms == {WIkm, 2}
Ads == {WAd, 2}
Infos == {WInfo, 2}
Versions == {"One", "Two"}

\* the most bytes the source hands out per read call: one, or all it has
Grans == {1, HEADER_SIZE + BUF_SIZE}

NoCall == [op |-> "none", err |-> "none", n |-> 0, len |-> 0]

NoRead == [empty |-> TRUE, n |-> 0, err |-> "none", refill |-> FALSE, tries |-> 0, off |-> 0]

RhInit ==
    [out |-> <<>>,        \* the bytes returned to the caller, in order
     err |-> "none",      \* the first error returned by new_with or read
     errn |-> 0,          \* the count carried by that error
     cleanEof |-> FALSE,  \* a read returned 0 for a non-empty dst, no error before
     lateEof |-> FALSE,   \* a read returned 0 for a non-empty dst after an error
     badOut |-> 0,        \* bytes returned from an unverified staging buffer
     retries |-> 0,       \* chunks accepted by the version-1 retry
     bad |-> 0,           \* offset of the first byte the adversary changed
     acc |-> <<>>,        \* counters under which non-final chunks verified
     opts |-> <<WIkm, WAd, WInfo>>,
     last |-> NoRead]

Init ==
    /\ pc = "start"
    /\ writer = [stream |-> VecSink]
    /\ encs = <<>>
    /\ ptext = <<>>
    /\ wlast = NoCall
    /\ nflush = 0
    /\ attack = NoAttack
    /\ reader = [stream |-> [data |-> <<>>, off |-> 0]]
    /\ verified = FALSE
    /\ rh = RhInit

(***************************************************************************)
(* Writer actions.                                                         *)
(***************************************************************************)
WriterNew(v) ==
    /\ pc = "start"
    /\ \E r \in {WriterNewWith(writer.stream, WIkm, v, WAd, WInfo)} :
           /\ pc' = IF r.ok THEN "writing" ELSE "wfailed"
           /\ writer' = IF r.ok THEN r.wr ELSE [stream |-> r.stream]
           /\ wlast' = [op |-> "new", err |-> r.err, n |-> 0, len |-> 0]
    /\ UNCHANGED <<encs, ptext, nflush>>
    /\ UNCHANGED rvars

\* the next k bytes of plaintext: the i-th byte ever written is Raw(i)
NextSrc(k) == [i \in 1..k |-> Raw(Len(ptext) + i)]

Write(k) ==
    /\ pc = "writing"
    /\ Len(ptext) + k <= MaxPlain
    /\ Len(encs) < MaxEncs
    /\ \E x \in {DoWrite([wr |-> writer, encs |-> encs, res |-> Ok(0)], NextSrc(k))} :
           /\ writer' = x.wr
           /\ encs' = x.encs
           /\ wlast' = [op |-> "write", err |-> x.res.err, n |-> x.res.n, len |-> k]
           /\ ptext' = IF x.res.err = "none" THEN ptext \o NextSrc(k) ELSE ptext
    /\ UNCHANGED <<pc, nflush>>
    /\ UNCHANGED rvars

Flush ==
    /\ pc = "writing"
    /\ nflush < MaxFlush
    /\ Len(encs) < MaxEncs
    /\ \E x \in {DoFlush([wr |-> writer, encs |-> encs, res |-> Ok(0)])} :
           /\ writer' = x.wr
           /\ encs' = x.encs
           /\ wlast' = [op |-> "flush", err |-> x.res.err, n |-> 0, len |-> 0]
    /\ nflush' = nflush + 1
    /\ UNCHANGED <<pc, ptext>>
    /\ UNCHANGED rvars

\* the sink holds a valid ciphertext: write* followed by exactly one flush
Flushed == nflush = 1 /\ wlast.op = "flush" /\ wlast.err = "none"

ValidCiphertext == pc = "writing" /\ Flushed

(***************************************************************************)
(* Reader actions.                                                         *)
(***************************************************************************)
\* the first offset the adversary changed; a change of salt or prefix
\* affects the first chunk
BadOffset(data, new, x) ==
    IF x.kind = "none" THEN Len(data)
    ELSE IF x.kind = "flip" /\ x.a >= VERSION_SIZE /\ x.a < HEADER_SIZE THEN HEADER_SIZE
    ELSE CommonPrefix(data, new)

\* the adversary changes valid ciphertexts only
AttackChoices ==
    {NoAttack} \cup (IF ValidCiphertext THEN Attacks(writer.stream.data, encs) ELSE {})

\* Reader::new_with over the sink's bytes as changed by attack x, with
\* options o = <<ikm, ad, info>>.  The sink is that of write* or of
\* write* flush; options other than the Writer's are tried on unmodified
\* valid ciphertexts.
ReaderNew(x, o, g) ==
    /\ pc = "writing"
    /\ nflush = 0 \/ Flushed
    /\ o = <<WIkm, WAd, WInfo>> \/ (x = NoAttack /\ ValidCiphertext)
    /\ x \in AttackChoices
    /\ \E new \in {Tampered(writer.stream.data, encs, x)} :
         \E r \in {ReaderNewWith([data |-> new, off |-> 0], o[1], o[2], o[3], g)} :
           /\ pc' = IF r.ok THEN "reading" ELSE "rfailed"
           /\ reader' = IF r.ok THEN r.rd ELSE [stream |-> r.stream]
           /\ rh' = [RhInit EXCEPT !.err = r.err, !.errn = r.n, !.opts = o,
                                   !.bad = BadOffset(writer.stream.data, new, x)]
    /\ attack' = x
    /\ verified' = FALSE
    /\ UNCHANGED wvars

Read(dstLen, g) ==
    /\ pc = "reading"
    /\ \E r \in {DoRead(reader, verified, dstLen, g)} :
           /\ reader' = r.rd
           /\ verified' = r.verified
           /\ rh' = [rh EXCEPT
                  !.out = rh.out \o r.bytes,
                  !.err = IF rh.err = "none" THEN r.res.err ELSE rh.err,
                  !.cleanEof = rh.cleanEof \/
                      (rh.err = "none" /\ r.res.err = "none" /\ r.res.n = 0 /\ dstLen > 0),
                  !.lateEof = rh.lateEof \/
                      (rh.err # "none" /\ r.res.err = "none" /\ r.res.n = 0 /\ dstLen > 0),
                  !.badOut = rh.badOut + (IF r.verified THEN 0 ELSE Len(r.bytes)),
                  !.acc = IF r.refill /\ r.tries > 0 /\ ~r.rd.eof
                             /\ r.res.err \in {"none", "CounterOverflow"}
                          THEN Append(rh.acc, CtrOf(reader.nonce)) ELSE rh.acc,
                  !.retries = rh.retries +
                      (IF r.refill /\ r.tries = 2 /\ r.res.err = "none" THEN 1 ELSE 0),
                  !.last = [empty |-> dstLen = 0, n |-> r.res.n, err |-> r.res.err,
                            refill |-> r.refill, tries |-> r.tries,
                            off |-> reader.stream.off]]
    /\ UNCHANGED <<pc, attack>>
    /\ UNCHANGED wvars

Next ==
    \/ \E v \in Versions : WriterNew(v)
    \/ \E k \in 0..MaxWrite : Write(k)
    \/ Flush
    \/ \E x \in AttackChoices, o \in Ikms \X Ads \X Infos, g \in Grans :
          ReaderNew(x, o, g)
    \/ \E d \in 0..MaxDst, g \in Grans : Read(d, g)

Spec == Init /\ [][Next]_vars

(***************************************************************************)
(* Version decoding: a Reader is opened over a header whose version field  *)
(* holds any 4 bytes with values up to MaxVerByte, followed by a salt and  *)
(* a prefix and no chunk.                                                  *)
(***************************************************************************)
VerFields == [1..VERSION_SIZE -> {Raw(v) : v \in 0..MaxVerByte}]

\* the version field of the header the Reader was given
VerField == Slice(reader.stream.data, 0, VERSION_SIZE)

InitVer ==
    /\ pc = "open"
    /\ writer = [stream |-> VecSink]
    /\ encs = <<>>
    /\ ptext = <<>>
    /\ wlast = NoCall
    /\ nflush = 0
    /\ attack = NoAttack
    /\ \E b \in VerFields :
          reader = [stream |-> [data |-> b \o RngFill(0, SALT_SIZE)
                                          \o RngFill(SALT_SIZE, PREFIX_SIZE),
                                off |-> 0]]
    /\ verified = FALSE
    /\ rh = RhInit

\* Reader::new_with over the given header
ReaderOpen(g) ==
    /\ pc = "open"
    /\ \E r \in {ReaderNewWith(reader.stream, WIkm, WAd, WInfo, g)} :
           /\ pc' = IF r.ok THEN "reading" ELSE "rfailed"
           /\ reader' = IF r.ok THEN r.rd ELSE [stream |-> r.stream]
           /\ rh' = [RhInit EXCEPT !.err = r.err, !.errn = r.n,
                                   !.bad = Len(reader.stream.data)]
    /\ UNCHANGED <<attack, verified>>
    /\ UNCHANGED wvars

NextVer ==
    \/ \E g \in Grans : ReaderOpen(g)
    \/ \E d \in 0..MaxDst, g \in Grans : Read(d, g)

SpecVer == InitVer /\ [][NextVer]_vars

(***************************************************************************)
(* Short headers: a Reader is opened over a source that holds the first    *)
(* len bytes of a header (any version field as above) followed by one      *)
(* byte, for every len from 0 to one byte past the header.                 *)
(***************************************************************************)
HeaderLens == 0..(HEADER_SIZE + 1)

InitHdr ==
    /\ pc = "open"
    /\ writer = [stream |-> VecSink]
    /\ encs = <<>>
    /\ ptext = <<>>
    /\ wlast = NoCall
    /\ nflush = 0
    /\ attack = NoAttack
    /\ \E b \in VerFields, len \in HeaderLens :
          reader = [stream |-> [data |-> Slice(b \o RngFill(0, SALT_SIZE)
                                                \o RngFill(SALT_SIZE, PREFIX_SIZE)
                                                \o <<Junk>>, 0, len),
                                off |-> 0]]
    /\ verified = FALSE
    /\ rh = RhInit

SpecHdr == InitHdr /\ [][NextVer]_vars

(***************************************************************************)
(* Counter overflow.  The counter starts at 0 and a stream of 2^32 chunks  *)
(* is out of reach, so this specification starts at a Writer that has      *)
(* emitted 2^32 - 2 non-final chunks and a Reader that has read them:      *)
(* their counters hold 0xFFFFFFFE, their staging buffers are empty, and    *)
(* the chunks already handled are left out of the sink and the histories.  *)
(***************************************************************************)
NearMax == <<Raw(BYTE_MAX), Raw(BYTE_MAX), Raw(BYTE_MAX), Raw(BYTE_MAX - 1)>>

CtrMax == <<Raw(BYTE_MAX), Raw(BYTE_MAX), Raw(BYTE_MAX), Raw(BYTE_MAX)>>

InitCtr ==
    /\ pc = "writing"
    /\ \E v \in Versions :
          \E r \in {WriterNewWith(VecSink, WIkm, v, WAd, WInfo)} :
             writer = [r.wr EXCEPT !.nonce = WriteCtr(r.wr.nonce, NearMax)]
    /\ encs = <<>>
    /\ ptext = <<>>
    /\ wlast = NoCall
    /\ nflush = 0
    /\ attack = NoAttack
    /\ reader = [stream |-> [data |-> <<>>, off |-> 0]]
    /\ verified = FALSE
    /\ rh = RhInit

\* the sink's bytes as they are, or with one of the chunks repeated
CtrAttacks ==
    {NoAttack} \cup {x \in [kind : {"dup"}, a : 1..Len(encs), b : {Len(encs) + 1}] :
                        Len(encs) >= 2}

\* a Reader over the sink of write* that has read the chunks left out
ReaderResume(x, g) ==
    /\ pc = "writing"
    /\ nflush = 0
    /\ x \in CtrAttacks
    /\ \E new \in {Tampered(writer.stream.data, encs, x)} :
         \E r \in {ReaderNewWith([data |-> new, off |-> 0], WIkm, WAd, WInfo, g)} :
           /\ r.ok
           /\ pc' = "reading"
           /\ reader' = [r.rd EXCEPT !.nonce = WriteCtr(r.rd.nonce, NearMax)]
           /\ rh' = [RhInit EXCEPT !.bad = BadOffset(writer.stream.data, new, x)]
    /\ attack' = x
    /\ verified' = FALSE
    /\ UNCHANGED wvars

NextCtr ==
    \/ \E k \in 0..MaxWrite : Write(k)
    \/ Flush
    \/ \E x \in CtrAttacks, g \in Grans : ReaderResume(x, g)
    \/ \E d \in 0..MaxDst, g \in Grans : Read(d, g)

SpecCtr == InitCtr /\ [][NextCtr]_vars

(***************************************************************************)
(* Limited sinks.  The Writer is constructed over a sink that accepts at   *)
(* most per bytes per write call and cap bytes in all, and answers a       *)
(* write it has no room for with Ok(0) or with an error.                   *)
(***************************************************************************)
SinkCaps ==
    {Unlimited, 0, VERSION_SIZE} \cup {HEADER_SIZE + k : k \in 0..MaxSinkRoom}

Sinks == [data : {<<>>}, per : {Unlimited, 1}, cap : SinkCaps, onFull : {"zero", "err"}]

InitSink ==
    /\ pc = "start"
    /\ \E s \in Sinks : writer = [stream |-> s]
    /\ encs = <<>>
    /\ ptext = <<>>
    /\ wlast = NoCall
    /\ nflush = 0
    /\ attack = NoAttack
    /\ reader = [stream |-> [data |-> <<>>, off |-> 0]]
    /\ verified = FALSE
    /\ rh = RhInit

NextSink ==
    \/ \E v \in Versions : WriterNew(v)
    \/ \E k \in 0..MaxWrite : Write(k)
    \/ Flush

SpecSink == InitSink /\ [][NextSink]_vars

(***************************************************************************)
(* Properties.                                                             *)
(***************************************************************************)
IsPrefix(s, t) == Len(s) <= Len(t) /\ \A i \in 1..Len(s) : s[i] = t[i]

Reading == pc \in {"reading", "rfailed"}

SameOpts == rh.opts = <<WIkm, WAd, WInfo>>

EofByte(nonce) == nonce[EOF_IDX + 1]

\* C1 (round trip): a Reader with the Writer's ikm, ad and info over the
\* unmodified bytes of write* flush is constructed without error, never
\* returns an error, returns only bytes that continue the plaintext in
\* order, and returns 0 for a non-empty destination only once the whole
\* plaintext has been returned.
RoundTrip ==
    (Reading /\ Flushed /\ attack = NoAttack /\ SameOpts) =>
        /\ pc = "reading"
        /\ rh.err = "none"
        /\ IsPrefix(rh.out, ptext)
        /\ (~rh.last.empty /\ rh.last.n = 0) => rh.out = ptext

\* witness of C1: a plaintext of two full chunks was read back completely
\* and the following read returned 0
RoundTripWitness ==
    /\ pc = "reading" /\ Flushed /\ attack = NoAttack /\ SameOpts
    /\ Len(ptext) = 2 * C
    /\ rh.out = ptext
    /\ rh.cleanEof

\* C2 (nonce uniqueness), as claimed: no two encryptions of one Writer use
\* the same nonce.
NonceUnique ==
    \A i, j \in 1..Len(encs) : i # j => encs[i].nonce # encs[j].nonce

\* C3 (length formula), as claimed: after write* flush the sink holds
\* exactly Writer::size(n, opts) bytes.
LengthFormula ==
    ValidCiphertext => Len(writer.stream.data) = WriterSize(Len(ptext), writer.version)

\* C4 (truncation detection): a Reader over a proper prefix of a valid
\* ciphertext fails construction with UnexpectedEof exactly when the cut
\* lies inside the header; otherwise the only error it returns is
\* Authentication and no read returns 0 for a non-empty destination before
\* an error was returned.
TruncationDetected ==
    (Reading /\ attack.kind = "trunc") =>
        /\ ~rh.cleanEof
        /\ (attack.a < HEADER_SIZE) => (pc = "rfailed" /\ rh.err = "UnexpectedEof")
        /\ (attack.a >= HEADER_SIZE) =>
               (pc = "reading" /\ rh.err \in {"none", "Authentication"})

\* witness of C4: a ciphertext cut after its header delivered some
\* plaintext and then a read returned Authentication
TruncationWitness ==
    /\ pc = "reading" /\ attack.kind = "trunc" /\ attack.a >= HEADER_SIZE
    /\ Len(rh.out) > 0
    /\ rh.last.err = "Authentication"

\* C5 (flush is required): a Reader over the sink of a Writer that was
\* written to but never flushed never returns 0 for a non-empty
\* destination, neither before nor after an error, and the only error it
\* returns is Authentication.
FlushRequired ==
    (Reading /\ nflush = 0 /\ SameOpts) =>
        /\ pc = "reading"
        /\ ~rh.cleanEof /\ ~rh.lateEof
        /\ rh.err \in {"none", "Authentication"}
        /\ (~rh.last.empty /\ rh.last.n = 0) => rh.last.err = "Authentication"

\* witness of C5: at least one chunk was emitted by write alone, the
\* Reader delivered it and the next read returned Authentication
FlushRequiredWitness ==
    /\ pc = "reading" /\ nflush = 0 /\ SameOpts
    /\ Len(encs) > 0 /\ Len(rh.out) > 0
    /\ rh.last.err = "Authentication"

\* C6 (version 2 forbids a full final chunk): after write* flush under
\* version Two the last chunk has fewer than C plaintext bytes; when the
\* plaintext length n is a multiple of C there are n/C + 1 chunks and the
\* last one is empty and was encrypted with nonce eof byte 1.
V2NoFullFinalChunk ==
    (Flushed /\ writer.version = "Two") =>
        LET N == Len(encs)
            n == Len(ptext)
        IN  /\ N >= 1
            /\ Len(encs[N].pt) < C
            /\ (n % C = 0) =>
                   /\ N = (n \div C) + 1
                   /\ Len(encs[N].pt) = 0
                   /\ EofByte(encs[N].nonce) = Raw(1)

\* witness of C6: two full chunks of plaintext, three chunks emitted
V2NoFullFinalChunkWitness ==
    /\ Flushed /\ writer.version = "Two"
    /\ Len(ptext) = 2 * C
    /\ Len(encs) = 3

\* C7 (version 1 permits a full final chunk): after write* flush under
\* version One with n a positive multiple of C there are n/C chunks and
\* the last carries C bytes under nonce eof byte 1 (one empty chunk when
\* n = 0); the Reader returns no error, a chunk is accepted by the retry
\* exactly when it is the final one (the Reader's eof flag is then set),
\* and a read returns 0 only after all n bytes.
V1FullFinalChunk ==
    (Flushed /\ writer.version = "One" /\ Len(ptext) % C = 0) =>
        LET N == Len(encs)
            n == Len(ptext)
        IN  /\ N = (IF n = 0 THEN 1 ELSE n \div C)
            /\ Len(encs[N].pt) = (IF n = 0 THEN 0 ELSE C)
            /\ EofByte(encs[N].nonce) = Raw(1)
            /\ (Reading /\ attack = NoAttack /\ SameOpts /\ n > 0) =>
                   /\ pc = "reading"
                   /\ rh.err = "none"
                   /\ rh.retries = (IF reader.eof THEN 1 ELSE 0)
                   /\ rh.last.tries = (IF rh.last.refill
                                       THEN (IF reader.eof THEN 2 ELSE 1) ELSE 0)
                   /\ rh.cleanEof => (rh.out = ptext /\ reader.eof)

\* witness of C7: the final full chunk was accepted by the retry, all
\* bytes were returned and a later read returned 0
V1FullFinalChunkWitness ==
    /\ pc = "reading" /\ Flushed /\ writer.version = "One"
    /\ attack = NoAttack /\ SameOpts
    /\ Len(ptext) = 2 * C
    /\ rh.retries = 1
    /\ rh.out = ptext
    /\ rh.cleanEof

\* C8 (zero delivery before verify), as claimed: every byte a read
\* returns comes from a staging buffer holding the plaintext of a chunk
\* whose tag verified.
OnlyVerifiedBytes == rh.badOut = 0

\* C9 (chunk-order integrity), as claimed: when two equal-length chunks of
\* a valid ciphertext were swapped or a chunk was duplicated, the Reader
\* returns no error other than Authentication, the read whose refill takes
\* in the first displaced byte returns Authentication, and the Reader never
\* reports a clean end of stream.
ChunkOrderIntegrity ==
    (pc = "reading" /\ attack.kind \in {"swap", "dup"}) =>
        /\ rh.err \in {"none", "Authentication"}
        /\ (reader.stream.off > rh.bad) => (rh.err = "Authentication")
        /\ ~rh.cleanEof

\* C10 (tamper detection): when one byte of the salt, the prefix, a
\* chunk's ciphertext or a chunk's tag was replaced, the read whose refill
\* takes in the first affected chunk byte returns Authentication, no other
\* error is returned and no read returns 0 for a non-empty destination
\* before it.
TamperDetected ==
    (pc = "reading" /\ attack.kind = "flip" /\ attack.a >= VERSION_SIZE) =>
        /\ rh.err \in {"none", "Authentication"}
        /\ (reader.stream.off > rh.bad) => (rh.err = "Authentication")
        /\ ~rh.cleanEof

\* witness of C10: a byte of a later chunk was replaced; the earlier
\* chunk was delivered and the refill with the affected chunk returned
\* Authentication
TamperWitness ==
    /\ pc = "reading" /\ attack.kind = "flip" /\ attack.a >= HEADER_SIZE
    /\ Len(rh.out) > 0
    /\ rh.last.refill /\ rh.last.err = "Authentication"

\* C18 (version encoding): One and Two encode to the big-endian bytes of
\* 1 and 2 and decode back to themselves; a version field with any other
\* value v does not decode, and Reader construction over it fails with
\* InvalidVersion(v); construction succeeds only with the version the
\* field encodes.
VersionEncoding ==
    /\ VersionToBytes("One") = <<Raw(0), Raw(0), Raw(0), Raw(1)>>
    /\ VersionToBytes("Two") = <<Raw(0), Raw(0), Raw(0), Raw(2)>>
    /\ \A v \in Versions :
           VersionTryFrom(VersionToBytes(v)).ok /\ VersionTryFrom(VersionToBytes(v)).version = v
    /\ (VerField \notin {VersionToBytes(v) : v \in Versions}) =>
           /\ ~VersionTryFrom(VerField).ok
           /\ ToBeBytes(VersionTryFrom(VerField).val) = VerField
           /\ pc # "reading"
    /\ (pc = "rfailed") =>
           /\ rh.err = "InvalidVersion"
           /\ ToBeBytes(rh.errn) = VerField
           /\ VerField \notin {VersionToBytes(v) : v \in Versions}
    /\ (pc = "reading") => VersionToBytes(reader.version) = VerField

\* witness of C18: construction failed on a version field whose value is
\* above 2 and has a non-zero high byte
VersionEncodingWitness ==
    /\ pc = "rfailed"
    /\ rh.err = "InvalidVersion"
    /\ rh.errn > RADIX
    /\ VerField[1] # Zero

\* C11 (key and AD binding): a Reader given another ikm, info or
\* associated data than the Writer's over a valid ciphertext is
\* constructed, and its first read with a non-empty destination returns
\* Authentication: until an error was returned no read with a non-empty
\* destination has succeeded, no byte was delivered and no chunk verified;
\* the only error is Authentication.
KeyAdBinding ==
    (Reading /\ Flushed /\ attack = NoAttack /\ ~SameOpts) =>
        /\ pc = "reading"
        /\ rh.err \in {"none", "Authentication"}
        /\ (rh.err = "none") => (rh.out = <<>> /\ rh.last.empty /\ ~verified)
        /\ ~rh.cleanEof
        /\ rh.retries = 0

\* witness of C11: an empty-plaintext stream read with other associated
\* data; the first read returned Authentication and nothing was delivered
KeyAdBindingWitness ==
    /\ pc = "reading" /\ Flushed /\ attack = NoAttack
    /\ rh.opts = <<WIkm, 2, WInfo>>
    /\ Len(ptext) = 0
    /\ rh.last.err = "Authentication" /\ rh.last.refill
    /\ rh.out = <<>>

\* C12 (zero-length read is a no-op): in every Reader state a read with an
\* empty destination returns 0 without error, does not refill the staging
\* buffer, delivers nothing, and leaves the whole Reader (source position,
\* staging buffer and its cursors, nonce, eof flag) as it was.
ZeroLengthRead ==
    [][(pc = "reading" /\ rh'.last.empty) =>
           /\ reader' = reader
           /\ verified' = verified
           /\ rh'.last.n = 0 /\ rh'.last.err = "none" /\ ~rh'.last.refill
           /\ rh'.out = rh.out /\ rh'.err = rh.err]_vars

\* witness of C12: a read with an empty destination was made while the
\* staging buffer was empty, eof was not set and the source had bytes left
ZeroLengthReadWitness ==
    /\ pc = "reading"
    /\ rh.last.empty /\ rh.last.off >= HEADER_SIZE
    /\ BufIsEmpty(reader.buf) /\ ~reader.eof
    /\ reader.stream.off < Len(reader.stream.data)

\* C13 (end of stream is terminal): no read clears the Reader's eof flag,
\* and a read made while the staging buffer is empty and eof is set
\* returns 0 without error, delivers nothing and leaves the Reader, its
\* source position included, as it was.
EofTerminal ==
    [][(pc = "reading" /\ pc' = "reading") =>
           /\ reader.eof => reader'.eof
           /\ (reader.eof /\ BufIsEmpty(reader.buf)) =>
                  /\ reader' = reader
                  /\ rh'.last.n = 0 /\ rh'.last.err = "none" /\ ~rh'.last.refill
                  /\ rh'.out = rh.out]_vars

\* witness of C13: with eof set and the staging buffer empty, a read with
\* a non-empty destination returned 0 although the source had bytes left
EofTerminalWitness ==
    /\ pc = "reading"
    /\ reader.eof /\ BufIsEmpty(reader.buf)
    /\ ~rh.last.empty /\ rh.last.n = 0 /\ rh.last.err = "none" /\ ~rh.last.refill
    /\ Len(rh.out) > 0
    /\ reader.stream.off < Len(reader.stream.data)

\* a version-1 ciphertext whose plaintext is a positive multiple of C, so
\* that its last chunk is a full chunk under the eof nonce, given to the
\* Reader with the version field of its header changed to 2
FullFinalAsV2 ==
    /\ pc = "reading" /\ Flushed
    /\ attack.kind = "flip" /\ attack.a = VERSION_SIZE - 1
    /\ writer.version = "One" /\ reader.version = "Two"
    /\ Len(ptext) > 0 /\ Len(ptext) % C = 0

\* C14 (no retry under version 2): a refill attempts at most one
\* decryption when the header version is Two and at most two when it is
\* One; a second attempt is made only on a full-size read and a chunk
\* accepted by it sets eof; a version-2 stream whose last chunk is a full
\* chunk under the eof nonce never ends cleanly: the refill that reads
\* that chunk returns Authentication.
RetryOnlyV1 ==
    (pc = "reading") =>
        /\ rh.last.tries <= (IF reader.version = "Two" THEN 1 ELSE 2)
        /\ (reader.version = "Two") => rh.retries = 0
        /\ (rh.last.tries = 2) =>
               /\ reader.stream.off - rh.last.off = BUF_SIZE
               /\ rh.last.err = "none" => reader.eof
        /\ FullFinalAsV2 =>
               /\ ~rh.cleanEof
               /\ rh.err \in {"none", "Authentication"}
               /\ (reader.stream.off = Len(reader.stream.data)) =>
                      rh.err = "Authentication"

\* witness of C14: the Reader delivered the first chunk of such a stream
\* and rejected its full final chunk after a single decryption
RetryOnlyV1Witness ==
    /\ FullFinalAsV2
    /\ Len(ptext) = 2 * C
    /\ rh.out = Slice(ptext, 0, C)
    /\ rh.last.refill /\ rh.last.tries = 1 /\ rh.last.err = "Authentication"
    /\ reader.stream.off = Len(reader.stream.data)

\* the counters of a history are pairwise different
Distinct(cs) == \A i, j \in 1..Len(cs) : i # j => cs[i] # cs[j]

\* the positions of the non-final encryptions in the Writer's history
NonFinal == {i \in 1..Len(encs) : ~encs[i].eof}

\* C15 (the chunk counter never wraps), as claimed: an operation that
\* returns CounterOverflow leaves the counter at its maximum, the Writer
\* encrypts no two non-final chunks under the same counter value, and the
\* Reader accepts no two non-final chunks under the same counter value.
CounterNeverReused ==
    /\ (pc \in {"writing", "reading"} /\ wlast.err = "CounterOverflow") =>
           CtrOf(writer.nonce) = CtrMax
    /\ (pc = "reading" /\ rh.last.err = "CounterOverflow") =>
           CtrOf(reader.nonce) = CtrMax
    /\ \A i, j \in NonFinal : i # j => CtrOf(encs[i].nonce) # CtrOf(encs[j].nonce)
    /\ Distinct(rh.acc)

\* the bytes of one chunk on the wire: ciphertext, then tag
ChunkWire(key, ad, e) ==
    EncryptBytes(key, e.nonce, e.pt) \o TagOf(key, e.nonce, ad, EncryptBytes(key, e.nonce, e.pt))

\* the bytes of the chunks es[from..Len(es)] on the wire, in order
RECURSIVE WireFrom(_, _, _, _)
WireFrom(key, ad, es, from) ==
    IF from > Len(es) THEN <<>>
    ELSE ChunkWire(key, ad, es[from]) \o WireFrom(key, ad, es, from + 1)

\* the header of a stream of version v
HeaderOf(v) == VersionToBytes(v) \o RngFill(0, SALT_SIZE) \o RngFill(SALT_SIZE, PREFIX_SIZE)

\* C16 (chunk emission is complete or fails), as claimed: a write or
\* flush that encrypted chunks and returned Ok has appended to the sink
\* exactly the ciphertext and the TAG_SIZE tag bytes of each of them.
ChunkEmissionComplete ==
    [][(pc = "writing" /\ encs' # encs /\ wlast'.err = "none") =>
           writer'.stream.data =
               writer.stream.data \o WireFrom(writer.key, writer.ad, encs', Len(encs) + 1)]_vars

\* C17 (header is written completely or construction fails), as claimed:
\* when Writer::new_with returns Ok the sink holds the version, the salt
\* and the prefix, in that order and in full.
HeaderComplete ==
    (pc = "writing" /\ wlast.op = "new" /\ wlast.err = "none") =>
        writer.stream.data = HeaderOf(writer.version)

\* the prefix field of the header in the sink
HeaderPrefix == Slice(writer.stream.data, VERSION_SIZE + SALT_SIZE, HEADER_SIZE)

\* C19 (wire layout): write and flush never change the prefix bytes of
\* the Writer's nonce, which are the prefix written in the header; after
\* write* flush the sink holds the header followed by the N >= 1 chunks
\* encrypted, every chunk but the last carries C plaintext bytes, and
\* chunk i (from 0) was encrypted under prefix || i || 0, the last one
\* under prefix || N-1 || 1.
WireLayout ==
    /\ (pc \in {"writing", "reading", "rfailed"}) =>
           Slice(writer.nonce, 0, PREFIX_SIZE) = HeaderPrefix
    /\ Flushed =>
           /\ Len(encs) >= 1
           /\ writer.stream.data =
                  HeaderOf(writer.version) \o WireFrom(writer.key, writer.ad, encs, 1)
           /\ \A i \in 1..Len(encs) :
                  /\ encs[i].nonce =
                         HeaderPrefix \o ToBeBytes(i - 1)
                                     \o <<Raw(IF i = Len(encs) THEN 1 ELSE 0)>>
                  /\ (i < Len(encs)) => Len(encs[i].pt) = C

\* witness of C19: a stream of three chunks
WireLayoutWitness ==
    /\ pc = "writing" /\ Flushed
    /\ Len(encs) = 3
    /\ Len(ptext) = 2 * C + 1

\* the plaintexts of the chunks es[from..Len(es)], concatenated
RECURSIVE PlainFrom(_, _)
PlainFrom(es, from) ==
    IF from > Len(es) THEN <<>> ELSE es[from].pt \o PlainFrom(es, from + 1)

\* the number of chunks write alone has emitted after n bytes: version One
\* keeps a full buffer staged, version Two emits it at once
EmittedAfter(n, version) ==
    IF version = "Two" THEN n \div C
    ELSE IF n = 0 THEN 0 ELSE (n - 1) \div C

\* what C20 says of the states reached by write calls alone
Conserved ==
    (pc = "writing" /\ nflush = 0) =>
        /\ wlast.err = "none"
        /\ (wlast.op = "write") => wlast.n = wlast.len
        /\ PlainFrom(encs, 1) \o RemainingSlice(writer.buf) = ptext
        /\ \A i \in 1..Len(encs) : Len(encs[i].pt) = C
        /\ Len(encs) = EmittedAfter(Len(ptext), writer.version)

\* C20 (writer order and conservation): a write returns |src|; after
\* write calls alone the plaintexts of the chunks emitted, in order,
\* followed by the staging buffer's contents are the bytes written, in
\* order, and the number and size of the chunks emitted depend on the
\* number of bytes written and the version only; a write of an empty src
\* returns 0 and changes nothing.
WriterConservation ==
    /\ []Conserved
    /\ [][(pc = "writing" /\ wlast'.op = "write" /\ wlast'.len = 0) =>
              /\ wlast'.n = 0 /\ wlast'.err = "none"
              /\ writer' = writer /\ encs' = encs /\ ptext' = ptext]_vars

\* witness of C20: two chunks were emitted and one byte is staged after a
\* last write of one byte
WriterConservationWitness ==
    /\ pc = "writing" /\ nflush = 0
    /\ Len(ptext) = 2 * C + 1 /\ Len(encs) = 2 /\ BufLen(writer.buf) = 1
    /\ wlast.op = "write" /\ wlast.len = 1

\* a step of write or flush on a Writer that stays in use
WriterStep == pc = "writing" /\ pc' = "writing"

\* the encryptions made by the step
NewEncs == SubSeq(encs', Len(encs) + 1, Len(encs'))

\* the number of chunks a write of k > 0 bytes emits when b bytes are
\* staged: version Two emits every buffer it fills, version One only the
\* full buffers that more bytes follow
EmittedBy(b, k, version) ==
    IF version = "Two" THEN (b + k) \div C ELSE (b + k - 1) \div C

\* C21 (no full buffer lingers under version 2, one may under version 1):
\* under version Two the staging buffer holds fewer than C bytes after
\* every write, so a flush emits a chunk of fewer than C bytes; under
\* version One a write that fills the buffer leaves it staged, and the
\* full buffer is emitted as a non-final chunk by the next non-empty
\* write or as the final chunk by flush.  A write emits only full
\* non-final chunks, the first one holding the bytes staged before.
BufferLinger ==
    /\ [](pc = "writing" /\ writer.version = "Two" => BufLen(writer.buf) < C)
    /\ [][(WriterStep /\ wlast'.op = "write" /\ wlast'.len > 0) =>
              /\ wlast'.err = "none"
              /\ Len(NewEncs) = EmittedBy(BufLen(writer.buf), wlast'.len, writer.version)
              /\ \A i \in 1..Len(NewEncs) : ~NewEncs[i].eof /\ Len(NewEncs[i].pt) = C
              /\ (writer.version = "One" /\ BufIsFull(writer.buf)) =>
                     NewEncs[1].pt = RemainingSlice(writer.buf)
              /\ (writer.version = "One" /\ BufLen(writer.buf) + wlast'.len = C) =>
                     (NewEncs = <<>> /\ BufIsFull(writer'.buf))]_vars
    /\ [][(WriterStep /\ nflush' = nflush + 1) =>
              /\ Len(NewEncs) = 1 /\ NewEncs[1].eof
              /\ NewEncs[1].pt = RemainingSlice(writer.buf)
              /\ (writer.version = "Two") => Len(NewEncs[1].pt) < C]_vars

\* witness of C21: under version One a write of C bytes into an empty
\* staging buffer left the buffer full, one chunk having been emitted by
\* an earlier write
BufferLingerWitness ==
    /\ pc = "writing" /\ writer.version = "One" /\ nflush = 0
    /\ BufIsFull(writer.buf)
    /\ wlast.op = "write" /\ wlast.len = C
    /\ Len(encs) = 1 /\ Len(ptext) = 2 * C

\* C22 (flush emits exactly one final chunk): a flush encrypts the staged
\* bytes, none included, once, under a nonce whose eof byte is 1, appends
\* to the sink that many ciphertext bytes and TAG_SIZE tag bytes, returns
\* Ok, leaves the counter bytes as they were and the staging buffer empty.
FlushEmitsOne ==
    [][(WriterStep /\ nflush' = nflush + 1) =>
           /\ wlast'.op = "flush" /\ wlast'.err = "none"
           /\ Len(NewEncs) = 1
           /\ NewEncs[1].pt = RemainingSlice(writer.buf)
           /\ EofByte(NewEncs[1].nonce) = Raw(1)
           /\ writer'.stream.data =
                  writer.stream.data \o ChunkWire(writer.key, writer.ad, NewEncs[1])
           /\ Len(writer'.stream.data) =
                  Len(writer.stream.data) + BufLen(writer.buf) + TAG_SIZE
           /\ CtrOf(writer'.nonce) = CtrOf(writer.nonce)
           /\ BufIsEmpty(writer'.buf)]_vars

\* witness of C22: a second flush, made with nothing staged, emitted an
\* empty chunk
FlushEmitsOneWitness ==
    /\ pc = "writing" /\ nflush = 2
    /\ wlast.op = "flush" /\ wlast.err = "none"
    /\ Len(encs) >= 2 /\ Len(encs[Len(encs)].pt) = 0
    /\ BufIsEmpty(writer.buf)


\* C23 (a read that returns Authentication leaves the counter as it was):
\* whenever a call of Reader::read returns Err(Authentication), be it for
\* a refill shorter than TAG_SIZE, a tag that does not verify or a
\* version-One retry that fails too, the four counter bytes of the nonce
\* after the call equal the four counter bytes before it.
CounterKeptOnFailure ==
    [][(pc = "reading" /\ pc' = "reading" /\ rh'.last.err = "Authentication")
       => CtrOf(reader'.nonce) = CtrOf(reader.nonce)]_vars

\* a version-One retry has failed after an earlier chunk was accepted, so
\* the counter that is kept is not the initial one
CounterKeptWitness ==
    /\ pc = "reading"
    /\ rh.last.err = "Authentication"
    /\ rh.last.tries = 2
    /\ Len(rh.acc) > 0
    /\ CtrOf(reader.nonce) # CtrOf(NonceDefault)


\* the source the Reader was opened over holds a whole version field that
\* is the encoding of 1 or of 2
KnownVersionField ==
    /\ Len(reader.stream.data) >= VERSION_SIZE
    /\ Slice(reader.stream.data, 0, VERSION_SIZE)
           \in {<<Raw(0), Raw(0), Raw(0), Raw(1)>>, <<Raw(0), Raw(0), Raw(0), Raw(2)>>}

\* C24 (what Reader construction consumes and how it fails): once
\* Reader::new_with has returned over a source of L bytes, (a) L < 4 gives
\* UnexpectedEof(L); (b) L >= 4 with a version field other than 1 and 2
\* gives InvalidVersion whatever follows, also when nothing follows;
\* (c) a known version and L < 36 gives UnexpectedEof(L - 4); (d) a known
\* version and 36 <= L < HEADER_SIZE gives UnexpectedEof(L - 36); (e)
\* otherwise construction succeeds and, until the first read, exactly
\* HEADER_SIZE bytes of the source are consumed.
HeaderConsumption ==
    (pc \in {"reading", "rfailed"}) =>
        \E L \in {Len(reader.stream.data)} :
            IF L < VERSION_SIZE
            THEN pc = "rfailed" /\ rh.err = "UnexpectedEof" /\ rh.errn = L
            ELSE IF ~KnownVersionField
            THEN pc = "rfailed" /\ rh.err = "InvalidVersion"
            ELSE IF L < VERSION_SIZE + SALT_SIZE
            THEN pc = "rfailed" /\ rh.err = "UnexpectedEof" /\ rh.errn = L - VERSION_SIZE
            ELSE IF L < HEADER_SIZE
            THEN /\ pc = "rfailed" /\ rh.err = "UnexpectedEof"
                 /\ rh.errn = L - (VERSION_SIZE + SALT_SIZE)
            ELSE /\ pc = "reading"
                 /\ (rh.last = NoRead) => reader.stream.off = HEADER_SIZE

\* witness of C24: the source held exactly the four bytes of an unknown
\* version and construction failed with InvalidVersion
HeaderConsumptionWitness ==
    /\ pc = "rfailed"
    /\ Len(reader.stream.data) = VERSION_SIZE
    /\ ~KnownVersionField
    /\ rh.err = "InvalidVersion"


\* C25 (a Reader that returned Authentication delivers nothing more): in
\* every read call made after a read call returned Authentication, no byte
\* is handed to the caller, and no read with a non-empty destination
\* returns Ok(0) as at the end of a verified stream.
PoisonedDeliversNothing ==
    [][(pc = "reading" /\ pc' = "reading" /\ rh.err = "Authentication")
       => (rh'.out = rh.out /\ ~rh'.lateEof)]_vars


\* C26 (a chunk is encrypted at most once): every AEAD encryption the
\* Writer performs is applied to bytes staged by write calls, never to
\* bytes that are the output of an earlier encryption, also after a chunk
\* emission failed on a sink error.
EncryptedOnce ==
    \A i \in 1..Len(encs) : \A j \in 1..Len(encs[i].pt) : encs[i].pt[j].t = "raw"


\* C27 (every write call returns): no call of Writer::write ends in a loop
\* of do_write whose iterations neither stage a byte nor emit a chunk nor
\* return, also when an earlier write or flush returned an error.
WriteTerminates == wlast.err # "Hang"


\* C28 (a clean end of stream means the source was read to its end): once
\* a read with a non-empty destination has returned Ok(0) with no error
\* before it, the source holds no unread byte; bytes that follow the final
\* chunk are not passed over in silence.
CleanEofConsumesSource ==
    (pc = "reading" /\ rh.cleanEof) => reader.stream.off = Len(reader.stream.data)


\* the source with its version field replaced by the encoding of 1
AsOneStream(stream) ==
    [stream EXCEPT !.data = Patch(stream.data, 0, <<Raw(0), Raw(0), Raw(0), Raw(1)>>)]

\* the Reader of version One in the state rd, over the changed source
AsOne(rd) == [rd EXCEPT !.version = "One", !.stream = AsOneStream(rd.stream)]

\* C29 (the version field is not bound to the chunk tags; version One
\* accepts what version Two accepts): over a source whose header says
\* version 2, possibly changed by the adversary, (a) construction over the
\* same bytes with the version field changed to 1 gives the same Reader but
\* for its version, and (b) from every state reached without error, every
\* read call that returns no error for the version-Two Reader returns the
\* same result and the same bytes for the version-One Reader in the same
\* state and leaves it in the same state, nonce and counter included.  By
\* (a) and (b) every error-free run over the version-2 stream is matched
\* call by call by the run over the changed stream.
VersionOneAcceptsTwo ==
    (pc = "reading" /\ reader.version = "Two" /\ rh.err = "none") =>
        /\ (rh.last = NoRead) =>
               \A g \in Grans :
                   \A r \in {ReaderNewWith([AsOneStream(reader.stream) EXCEPT !.off = 0],
                                            rh.opts[1], rh.opts[2], rh.opts[3], g)} :
                       r.ok /\ r.rd = AsOne(reader)
        /\ \A d \in 0..MaxDst, g \in Grans :
               \A r2 \in {DoRead(reader, verified, d, g)} :
                   (r2.res.err = "none") =>
                       DoRead(AsOne(reader), verified, d, g) = [r2 EXCEPT !.rd = AsOne(r2.rd)]

\* witness of C29: a stream whose header says version 2, with a full
\* non-final chunk, was read to its clean end without error
VersionOneAcceptsTwoWitness ==
    /\ pc = "reading"
    /\ reader.version = "Two"
    /\ Slice(reader.stream.data, 0, VERSION_SIZE) = <<Raw(0), Raw(0), Raw(0), Raw(2)>>
    /\ rh.err = "none"
    /\ rh.cleanEof
    /\ Len(rh.acc) >= 1
    /\ Len(rh.out) > C


\* the clauses of the Reader invariant on the eof flag, the prefix and the
\* cursors of the staging buffer
ReaderFlagsAndCursors ==
    (pc = "reading") =>
        /\ reader.nonce[EOF_IDX + 1] \in {Raw(0), Raw(1)}
        /\ reader.eof <=> (reader.nonce[EOF_IDX + 1] = Raw(1))
        /\ Slice(reader.nonce, 0, PREFIX_SIZE)
               = Slice(reader.stream.data, VERSION_SIZE + SALT_SIZE, HEADER_SIZE)
        /\ 0 <= reader.buf.read
        /\ reader.buf.read <= reader.buf.write
        /\ reader.buf.write <= C + TAG_SIZE

\* the clause on the counter, by steps: a read call in which a non-final
\* chunk verifies leaves the counter one higher, every other read call
\* leaves it as it was
CounterCountsChunks ==
    (pc = "reading" /\ pc' = "reading") =>
        IF Len(rh'.acc) = Len(rh.acc) + 1
        THEN /\ CheckedAdd1(CtrOf(reader.nonce)).ok
             /\ CtrOf(reader'.nonce) = CheckedAdd1(CtrOf(reader.nonce)).val
        ELSE CtrOf(reader'.nonce) = CtrOf(reader.nonce)

\* C30 (Reader state invariant): in every state of a constructed Reader
\* the eof flag is set exactly when the eof byte of the nonce is 1, the
\* prefix bytes of the nonce are the prefix field of the header, the
\* cursors of the staging buffer satisfy read <= write <= C + TAG_SIZE,
\* and the counter bytes hold the number of non-final chunks verified so
\* far: the count a Reader starts with, raised by one by every read call
\* in which a non-final chunk verifies and by nothing else.
ReaderInvariant == []ReaderFlagsAndCursors /\ [][CounterCountsChunks]_vars

=============================================================================
